---- MODULE Spec2Model ----
(***************************************************************************)
(* Chunked translation pipeline of Tajreba: the shared TranslationState,   *)
(* its lock, the background worker and the command handlers, for the two   *)
(* front-ends of the repository (src/app.py, the Flask server, and         *)
(* src/Tajreba_app_llm_ar-en.py, the Gradio application).                  *)
(***************************************************************************)
EXTENDS Integers, Sequences, FiniteSets, TLC

\* ------------------------------------------------------------------ bounds
MaxJobs == 2        \* Start commands accepted in one behaviour
MaxActive == 2      \* worker threads alive at the same time
MaxChunks == 2      \* longest document, in chunks of the smallest batch size
MaxErrors == 1      \* backend calls that fail in one behaviour
MaxSizerK == 100    \* longest document given to the batch sizer, in 2500s
MaxText == 6        \* longest backend output given to the sanitizer, in tokens
MaxRaw == 4         \* longest backend output of one backend call, in tokens

Variants == {"flask", "gradio"}
Workers == 1..MaxActive

\* document inputs: a readable text of the given length, a file the reader
\* raises on, or no file at all
Unreadable == 0 - 1
NoFile == 0 - 2
DocLens == {0} \cup {k * 1000 - 250 : k \in 1..MaxChunks}
Docs == DocLens \cup {Unreadable, NoFile}

BackendOutcomes == {"ok", "err"}

\* document lengths given to the batch sizer on its own: a grid up to beyond
\* the last threshold, and the neighbours of each threshold
SizerLens ==
    {k * 2500 : k \in 0..MaxSizerK}
        \cup {4999, 5001, 49999, 50001, 199999, 200001}

VARIABLES
    variant,            \* which front-end runs
    lock,               \* owner of TranslationState.lock
    paused, stopped, running,
    current_chunk, total_chunks,
    translated_chunks, live_feed,
    status_message, start_time, error, output_file,
    njobs,              \* worker threads launched so far
    nerrors,            \* backend calls that have failed so far
    worker,             \* per live or ended worker thread: position and locals
    client,             \* the handler serving the operator's command:
                        \* its position and locals between two locked blocks
    call                \* a call of one of the pure helpers: function,
                        \* argument, position and returned value

shared == <<paused, stopped, running, current_chunk, total_chunks,
            translated_chunks, live_feed, status_message, start_time,
            error, output_file>>
vars == <<variant, lock, paused, stopped, running, current_chunk, total_chunks,
          translated_chunks, live_feed, status_message, start_time, error,
          output_file, njobs, nerrors, worker, client, call>>

\* ------------------------------------------------------------------ values
Free == <<"free", 0>>
W(w) == <<"worker", w>>
Handler == <<"client", 0>>

NoOutput == 0           \* output_file = None

Msg(kind, a, b) == <<kind, a, b>>
MsgEmpty == Msg("", 0, 0)
MsgStopped == Msg("stopped", 0, 0)
MsgComplete == Msg("complete", 0, 0)
MsgError == Msg("error", 0, 0)
MsgTranslating(k, n) == Msg("translating", k, n)
MsgPaused(k, n) == Msg("paused", k, n)

\* a chunk result: the backend's answer for chunk idx of the document of job
NL == [job |-> 0, idx |-> 0, ok |-> TRUE]
Result(j, k, r) == [job |-> j, idx |-> k, ok |-> (r = "ok")]

\* "\n".join(translated_chunks)
Join(chunks) ==
    [n \in 1..(IF chunks = <<>> THEN 0 ELSE 2 * Len(chunks) - 1) |->
        IF n % 2 = 1 THEN chunks[(n + 1) \div 2] ELSE NL]

\* the separator the worker appends to live_feed after a result
FeedSep == IF variant = "flask" THEN <<NL, NL>> ELSE <<NL>>

\* the sizer with its first threshold compared by <= instead of <
SizerInclusiveThreshold(doc) ==
    LET total_chars == IF doc = Unreadable THEN 20000 ELSE doc
    IN  IF total_chars <= 5000 THEN 1000
        ELSE IF total_chars < 50000 THEN 2000
        ELSE IF total_chars < 200000 THEN 3000
        ELSE 4000

calculate_optimal_batch_size(doc) ==
    LET total_chars == IF doc = Unreadable THEN 20000 ELSE doc
    IN  IF total_chars < 5000 THEN 1000
        ELSE IF total_chars < 50000 THEN 2000
        ELSE IF total_chars < 200000 THEN 3000
        ELSE 4000

TotalChunksOf(total_chars, batch_size) ==
    (total_chars + batch_size - 1) \div batch_size

Progress == IF total_chunks = 0 THEN 0 ELSE (100 * current_chunk) \div total_chunks

\* TranslationState.get_status (Gradio)
get_status ==
    IF ~running THEN status_message
    ELSE IF paused THEN MsgPaused(current_chunk, total_chunks)
    ELSE MsgTranslating(current_chunk, total_chunks)

NoWorker == [pc |-> "none", job |-> 0, doc |-> 0, B |-> 0, i |-> 0, text |-> <<>>]
IdleClient == [pc |-> "idle", op |-> "none", doc |-> 0, B |-> 0,
               text |-> <<>>, progress |-> 0]

ChunkNum(w) == worker[w].i \div worker[w].B + 1

NoCall == [fn |-> "none", arg |-> 0, pc |-> "idle", ret |-> 0]

\* ------------------------------------------------------------------ initial state
JobInit ==
    /\ variant \in Variants
    /\ lock = Free
    /\ paused = FALSE
    /\ stopped = FALSE
    /\ running = FALSE
    /\ current_chunk = 0
    /\ total_chunks = 0
    /\ translated_chunks = <<>>
    /\ live_feed = <<>>
    /\ status_message = MsgEmpty
    /\ start_time = FALSE
    /\ error = FALSE
    /\ output_file = NoOutput
    /\ njobs = 0
    /\ nerrors = 0
    /\ worker = [w \in Workers |-> NoWorker]
    /\ client = IdleClient

Init ==
    /\ JobInit
    /\ call = NoCall

\* ------------------------------------------------------------------ worker thread
SetW(w, f) == [worker EXCEPT ![w] = f]

\* the thread has returned; the record keeps how far its loop got and the
\* document it wrote
Ended(w, pc) == [worker[w] EXCEPT !.pc = pc]

\* the top of the worker up to and including its first locked block:
\* read_text_from_file, the chunk arithmetic (the Flask worker computes the
\* batch size itself), then running, total_chunks, current_chunk, results, feed
WInit(w) ==
    /\ worker[w].pc = "start"
    /\ IF worker[w].doc = Unreadable
       THEN /\ worker' = SetW(w, [worker[w] EXCEPT !.pc = "except"])
            /\ UNCHANGED shared
       ELSE LET batch_size == IF variant = "flask"
                              THEN calculate_optimal_batch_size(worker[w].doc)
                              ELSE worker[w].B
            IN  /\ lock = Free
                /\ running' = TRUE
                /\ total_chunks' = TotalChunksOf(worker[w].doc, batch_size)
                /\ current_chunk' = 0
                /\ translated_chunks' = <<>>
                /\ live_feed' = <<>>
                /\ start_time' = TRUE
                /\ worker' = SetW(w, [worker[w] EXCEPT
                        !.B = batch_size,
                        !.i = 0,
                        !.pc = IF 0 < worker[w].doc THEN "check" ELSE "finalize"])
                /\ UNCHANGED <<paused, stopped, status_message, error, output_file>>
    /\ UNCHANGED <<call, variant, lock, njobs, nerrors, client>>

AfterCheck == IF variant = "flask" THEN "status" ELSE "dispatch"

\* top of an iteration: the stop test and the pause test, under the lock;
\* the pause loop is entered inside the same locked block
WCheck(w) ==
    /\ worker[w].pc = "check"
    /\ lock = Free
    /\ IF stopped
       THEN /\ status_message' = MsgStopped
            /\ worker' = SetW(w, [worker[w] EXCEPT !.pc = "finalize"])
            /\ UNCHANGED lock
       ELSE IF paused
       THEN /\ lock' = W(w)
            /\ worker' = SetW(w, [worker[w] EXCEPT !.pc = "pausewait"])
            /\ UNCHANGED status_message
       ELSE /\ worker' = SetW(w, [worker[w] EXCEPT !.pc = AfterCheck])
            /\ UNCHANGED <<lock, status_message>>
    /\ UNCHANGED <<call, variant, paused, stopped, running, current_chunk,
                   total_chunks, translated_chunks, live_feed, start_time,
                   error, output_file, njobs, nerrors, client>>

\* the test of "while paused: time.sleep(...)", still inside the locked block
WPauseWait(w) ==
    /\ worker[w].pc = "pausewait"
    /\ IF paused
       THEN /\ worker' = SetW(w, [worker[w] EXCEPT !.pc = "pausesleep"])
            /\ UNCHANGED lock
       ELSE /\ lock' = Free
            /\ worker' = SetW(w, [worker[w] EXCEPT !.pc = AfterCheck])
    /\ UNCHANGED <<call, variant, shared, njobs, nerrors, client>>

\* time.sleep(...) of the pause loop returns
WPauseSleep(w) ==
    /\ worker[w].pc = "pausesleep"
    /\ worker' = SetW(w, [worker[w] EXCEPT !.pc = "pausewait"])
    /\ UNCHANGED <<call, variant, lock, shared, njobs, nerrors, client>>

\* Flask only: the per-chunk status message, in a locked block of its own,
\* followed by the launch of the backend process
WStatus(w) ==
    /\ worker[w].pc = "status"
    /\ lock = Free
    /\ status_message' = MsgTranslating(ChunkNum(w), 
                            TotalChunksOf(worker[w].doc, worker[w].B))
    /\ worker' = SetW(w, [worker[w] EXCEPT !.pc = "incall"])
    /\ UNCHANGED <<call, variant, lock, paused, stopped, running, current_chunk,
                   total_chunks, translated_chunks, live_feed, start_time,
                   error, output_file, njobs, nerrors, client>>

\* Gradio: translate_with_ollama begins, the backend process is launched
WDispatch(w) ==
    /\ worker[w].pc = "dispatch"
    /\ worker' = SetW(w, [worker[w] EXCEPT !.pc = "incall"])
    /\ UNCHANGED <<call, variant, lock, shared, njobs, nerrors, client>>

WAppendNoSeparator(w, r) ==
    /\ worker[w].pc = "incall"
    /\ r = "err" => nerrors < MaxErrors
    /\ nerrors' = IF r = "err" THEN nerrors + 1 ELSE nerrors
    /\ lock = Free
    /\ translated_chunks' =
            Append(translated_chunks, Result(worker[w].job, ChunkNum(w), r))
    /\ current_chunk' = ChunkNum(w)
    /\ live_feed' =
            live_feed \o <<Result(worker[w].job, ChunkNum(w), r)>>
    /\ worker' = SetW(w, [worker[w] EXCEPT
            !.i = @ + worker[w].B,
            !.pc = IF worker[w].i + worker[w].B < worker[w].doc
                   THEN "check" ELSE "finalize"])
    /\ UNCHANGED <<call, variant, lock, paused, stopped, running, total_chunks,
                   status_message, start_time, error, output_file, njobs,
                   client>>

\* translate_with_ollama returns a translation or an error text; the locked
\* block stores it, then the loop moves to its next index
WAppend(w, r) ==
    /\ worker[w].pc = "incall"
    /\ r = "err" => nerrors < MaxErrors
    /\ nerrors' = IF r = "err" THEN nerrors + 1 ELSE nerrors
    /\ lock = Free
    /\ translated_chunks' =
            Append(translated_chunks, Result(worker[w].job, ChunkNum(w), r))
    /\ current_chunk' = ChunkNum(w)
    /\ live_feed' =
            live_feed \o <<Result(worker[w].job, ChunkNum(w), r)>> \o FeedSep
    /\ worker' = SetW(w, [worker[w] EXCEPT
            !.i = @ + worker[w].B,
            !.pc = IF worker[w].i + worker[w].B < worker[w].doc
                   THEN "check" ELSE "finalize"])
    /\ UNCHANGED <<call, variant, lock, paused, stopped, running, total_chunks,
                   status_message, start_time, error, output_file, njobs,
                   client>>

\* the final locked block up to the call of write_docx
WFinalize(w) ==
    /\ worker[w].pc = "finalize"
    /\ lock = Free
    /\ running' = FALSE
    /\ IF ~stopped
       THEN /\ lock' = W(w)
            /\ status_message' = IF variant = "flask" THEN MsgComplete
                                 ELSE status_message
            /\ worker' = SetW(w, [worker[w] EXCEPT
                    !.pc = "writing",
                    !.text = Join(translated_chunks)])
       ELSE /\ worker' = SetW(w, Ended(w, "done_stopped"))
            /\ UNCHANGED <<lock, status_message>>
    /\ UNCHANGED <<call, variant, paused, stopped, current_chunk, total_chunks,
                   translated_chunks, live_feed, start_time, error,
                   output_file, njobs, nerrors, client>>

\* write_docx returned: the rest of the final locked block
WWriteOk(w) ==
    /\ worker[w].pc = "writing"
    /\ variant = "gradio" => start_time
    /\ lock' = Free
    /\ output_file' = IF variant = "flask" THEN worker[w].job ELSE output_file
    /\ status_message' = IF variant = "gradio" THEN MsgComplete
                         ELSE status_message
    /\ worker' = SetW(w, Ended(w, "done_completed"))
    /\ UNCHANGED <<call, variant, paused, stopped, running, current_chunk,
                   total_chunks, translated_chunks, live_feed, start_time,
                   error, njobs, nerrors, client>>

\* write_docx raised: the exception leaves the locked block
WWriteFail(w) ==
    /\ worker[w].pc = "writing"
    /\ lock' = Free
    /\ worker' = SetW(w, [worker[w] EXCEPT !.pc = "except", !.text = <<>>])
    /\ UNCHANGED <<call, variant, shared, njobs, nerrors, client>>

\* Gradio: write_docx returned, and "time.time() - start_time" raises because
\* a reset has put start_time back to None; the exception leaves the locked
\* block with the document written
WElapsedRaise(w) ==
    /\ worker[w].pc = "writing"
    /\ variant = "gradio"
    /\ ~start_time
    /\ lock' = Free
    /\ worker' = SetW(w, [worker[w] EXCEPT !.pc = "except"])
    /\ UNCHANGED <<call, variant, shared, njobs, nerrors, client>>

\* the except handler
WExcept(w) ==
    /\ worker[w].pc = "except"
    /\ lock = Free
    /\ running' = FALSE
    /\ error' = IF variant = "flask" THEN TRUE ELSE error
    /\ status_message' = MsgError
    /\ worker' = SetW(w, Ended(w, "done_failed"))
    /\ UNCHANGED <<call, variant, lock, paused, stopped, current_chunk,
                   total_chunks, translated_chunks, live_feed, start_time,
                   output_file, njobs, nerrors, client>>

WorkerStep(w) ==
    \/ WInit(w)
    \/ WCheck(w)
    \/ WPauseWait(w)
    \/ WPauseSleep(w)
    \/ WStatus(w)
    \/ WDispatch(w)
    \/ \E r \in BackendOutcomes : WAppend(w, r)
    \/ WFinalize(w)
    \/ WWriteOk(w)
    \/ WWriteFail(w)
    \/ WElapsedRaise(w)
    \/ WExcept(w)

\* ------------------------------------------------------------------ command handlers
\* A handler waits for the lock and runs its locked block in one step; a
\* handler with several locked blocks (Gradio) keeps its position in client.

\* TranslationState.reset
ResetState ==
    /\ paused' = FALSE
    /\ stopped' = FALSE
    /\ running' = FALSE
    /\ current_chunk' = 0
    /\ total_chunks' = 0
    /\ translated_chunks' = <<>>
    /\ live_feed' = <<>>
    /\ status_message' = MsgEmpty
    /\ start_time' = FALSE
    /\ error' = FALSE
    /\ output_file' = NoOutput

\* the job state records an output artifact: output_file (Flask), the
\* "saved to" completion message (Gradio)
ArtifactRecorded ==
    IF variant = "flask" THEN output_file # NoOutput
    ELSE status_message = MsgComplete

\* a Start has been served and has returned
StartReturned == njobs > 0 /\ client.pc # "start_config"

\* a thread that has returned, or was never started; a new thread takes the
\* record of one of them
EndedPcs == {"done_completed", "done_stopped", "done_failed"}
Gone(w) == worker[w].pc \in EndedPcs \cup {"none"}
FreeSlot == CHOOSE w \in Workers : Gone(w) /\ \A v \in Workers : Gone(v) => w <= v

\* threading.Thread(target=worker, ...).start()
Launch(d, batch_size) ==
    /\ njobs' = njobs + 1
    /\ worker' = SetW(FreeSlot, [NoWorker EXCEPT
            !.pc = "start", !.job = njobs + 1, !.doc = d, !.B = batch_size])

\* start_translation without a usable file: the handler returns an error
\* before it touches the state
StartRejected ==
    /\ client.pc = "idle"
    /\ UNCHANGED vars

\* start_translation: the input checks, in the Gradio application the batch
\* size, then state.reset(); the Flask handler starts the thread and returns
StartReset(d) ==
    /\ client.pc = "idle"
    /\ d # NoFile
    /\ njobs < MaxJobs
    /\ \E w \in Workers : Gone(w)
    /\ lock = Free
    /\ ResetState
    /\ IF variant = "flask"
       THEN /\ Launch(d, 0)
            /\ UNCHANGED client
       ELSE /\ client' = [IdleClient EXCEPT
                    !.pc = "start_config", !.op = "start", !.doc = d,
                    !.B = calculate_optimal_batch_size(d)]
            /\ UNCHANGED <<njobs, worker>>
    /\ UNCHANGED <<call, variant, lock, nerrors>>

\* Gradio only: the locked block that stores the options, then the thread start
StartConfig ==
    /\ client.pc = "start_config"
    /\ lock = Free
    /\ Launch(client.doc, client.B)
    /\ client' = IdleClient
    /\ UNCHANGED <<call, variant, lock, shared, nerrors>>

\* the Gradio handlers end with a read-back of progress, status and feed:
\* pause_toggle and a round of poll_progress ("poll") also read running,
\* stop_translation ("stop") does not
ReadBack(op) == [IdleClient EXCEPT !.pc = "get_progress", !.op = op]

\* a pause handler that sets the flag instead of flipping it
PauseSetsFlag ==
    /\ client.pc = "idle"
    /\ lock = Free
    /\ paused' = TRUE
    /\ client' = IF variant = "flask" THEN client ELSE ReadBack("poll")
    /\ UNCHANGED <<variant, lock, stopped, running, current_chunk,
                   total_chunks, translated_chunks, live_feed, status_message,
                   start_time, error, output_file, njobs, nerrors, worker>>

\* pause_translation / pause_toggle: the locked flip of the flag
pause_toggle ==
    /\ client.pc = "idle"
    /\ lock = Free
    /\ paused' = ~paused
    /\ client' = IF variant = "flask" THEN client ELSE ReadBack("poll")
    /\ UNCHANGED <<variant, lock, stopped, running, current_chunk,
                   total_chunks, translated_chunks, live_feed, status_message,
                   start_time, error, output_file, njobs, nerrors, worker>>

DoPause ==
    /\ pause_toggle
    /\ UNCHANGED call

\* stop_translation: the locked block
stop_translation ==
    /\ client.pc = "idle"
    /\ lock = Free
    /\ stopped' = TRUE
    /\ running' = IF variant = "flask" THEN FALSE ELSE running
    /\ client' = IF variant = "flask" THEN client ELSE ReadBack("stop")
    /\ UNCHANGED <<variant, lock, paused, current_chunk, total_chunks,
                   translated_chunks, live_feed, status_message, start_time,
                   error, output_file, njobs, nerrors, worker>>

DoStop ==
    /\ stop_translation
    /\ UNCHANGED call

\* what Flask get_status reports, read in one locked block
StatusReport ==
    [progress |-> Progress, status |-> status_message, live |-> live_feed]

\* Flask get_status: one locked read of all reported fields
DoStatus ==
    /\ variant = "flask"
    /\ client.pc = "idle"
    /\ lock = Free
    /\ UNCHANGED vars

\* Gradio: one round of poll_progress begins
PollProgress ==
    /\ variant = "gradio"
    /\ client.pc = "idle"
    /\ client' = ReadBack("poll")
    /\ UNCHANGED <<call, variant, lock, shared, njobs, nerrors, worker>>

\* Gradio: TranslationState.get_progress; the value is kept until the
\* handler returns it together with the status and the feed
GetProgress ==
    /\ client.pc = "get_progress"
    /\ lock = Free
    /\ client' = [client EXCEPT !.pc = "get_status", !.progress = Progress]
    /\ UNCHANGED <<call, variant, lock, shared, njobs, nerrors, worker>>

\* Gradio: TranslationState.get_status
GetStatus ==
    /\ client.pc = "get_status"
    /\ lock = Free
    /\ client' = [client EXCEPT !.pc = "get_live_feed"]
    /\ UNCHANGED <<call, variant, lock, shared, njobs, nerrors, worker>>

\* Gradio: TranslationState.get_live_feed; stop_translation returns after it
GetLiveFeed ==
    /\ client.pc = "get_live_feed"
    /\ lock = Free
    /\ client' = IF client.op = "stop" THEN IdleClient
                 ELSE [client EXCEPT !.pc = "read_running"]
    /\ UNCHANGED <<call, variant, lock, shared, njobs, nerrors, worker>>

\* Gradio: the read of translation_state.running, outside the lock; the
\* handler returns
ReadRunning ==
    /\ client.pc = "read_running"
    /\ client' = IdleClient
    /\ UNCHANGED <<call, variant, lock, shared, njobs, nerrors, worker>>

\* what the export handler decides on: the recorded file (Flask) or the
\* accumulated results (Gradio)
ExportHasDocument ==
    IF variant = "flask" THEN output_file # NoOutput
    ELSE translated_chunks # <<>>

\* the document the worker of job j wrote
FileText(j) == worker[CHOOSE w \in Workers : worker[w].job = j].text

\* the text of the document an export returns
ExportText ==
    IF variant = "flask" THEN FileText(output_file)
    ELSE Join(translated_chunks)

\* export_file (Flask, the whole handler) / export_and_download (Gradio, up
\* to the call of write_docx)
DoExport ==
    /\ client.pc = "idle"
    /\ lock = Free
    /\ IF ExportHasDocument /\ variant = "gradio"
       THEN /\ lock' = Handler
            /\ client' = [IdleClient EXCEPT
                    !.pc = "export_write", !.op = "export",
                    !.text = ExportText]
       ELSE UNCHANGED <<lock, client>>
    /\ UNCHANGED <<call, variant, shared, njobs, nerrors, worker>>

\* Gradio: write_docx returned or raised inside the export's locked block
ExportWrite ==
    /\ client.pc = "export_write"
    /\ lock' = Free
    /\ client' = IdleClient
    /\ UNCHANGED <<call, variant, shared, njobs, nerrors, worker>>

\* the later steps of a handler that has begun
ClientRun ==
    \/ StartConfig
    \/ GetProgress
    \/ GetStatus
    \/ GetLiveFeed
    \/ ReadRunning
    \/ ExportWrite

\* the operator's commands
ClientCall ==
    \/ StartRejected
    \/ \E d \in Docs : StartReset(d)
    \/ DoPause
    \/ DoStop
    \/ DoStatus
    \/ PollProgress
    \/ DoExport

Next ==
    \/ \E w \in Workers : WorkerStep(w)
    \/ ClientCall
    \/ ClientRun

Spec == Init /\ [][Next]_vars

\* fair scheduling of the threads: a worker or handler step that can be taken
\* again and again is taken; the operator is free to issue commands or not
FairSpec ==
    /\ Spec
    /\ \A w \in Workers : SF_vars(WorkerStep(w))
    /\ SF_vars(ClientRun)

\* the operator does not leave a job paused for ever: a resume that stays
\* possible is issued
FairResumeSpec ==
    /\ FairSpec
    /\ WF_vars(paused /\ DoPause)

\* the operator's Stop is served as soon as the handler can take the lock
FairStopSpec ==
    /\ FairSpec
    /\ SF_vars(~stopped /\ DoStop)

\* ------------------------------------------------------------------ sanitize_output
\* A backend output is a sequence of tokens: "ar" a run of Arabic letters,
\* "thinking" that word (a marker of the pattern), "lat" other Latin letters,
\* "sp" a blank, "dots" the characters "...", "nl" a line break.  Letters of
\* neighbouring tokens run together into one word.
Tokens == {"ar", "thinking", "lat", "sp", "dots", "nl"}
WordChars == {"ar", "thinking", "lat"}
Whitespace == {"sp", "nl"}
Texts == UNION {[1..k -> Tokens] : k \in 0..MaxText}

IndexOf(t, S) ==
    IF \E n \in 1..Len(t) : t[n] \in S
    THEN CHOOSE n \in 1..Len(t) :
            t[n] \in S /\ \A m \in 1..(n - 1) : t[m] \notin S
    ELSE 0
LastIndexOf(t, S) ==
    IF \E n \in 1..Len(t) : t[n] \in S
    THEN CHOOSE n \in 1..Len(t) :
            t[n] \in S /\ \A m \in (n + 1)..Len(t) : t[m] \notin S
    ELSE 0

\* str.splitlines()
RECURSIVE splitlines(_)
splitlines(t) ==
    IF t = <<>> THEN <<>>
    ELSE LET k == IndexOf(t, {"nl"})
         IN  IF k = 0 THEN <<t>>
             ELSE <<SubSeq(t, 1, k - 1)>> \o splitlines(SubSeq(t, k + 1, Len(t)))

\* "\n".join(lines)
RECURSIVE JoinLines(_)
JoinLines(lines) ==
    IF lines = <<>> THEN <<>>
    ELSE IF Len(lines) = 1 THEN lines[1]
    ELSE lines[1] \o <<"nl">> \o JoinLines(Tail(lines))

\* str.strip()
strip(t) ==
    LET NonBlank == Tokens \ Whitespace
    IN  IF IndexOf(t, NonBlank) = 0 THEN <<>>
        ELSE SubSeq(t, IndexOf(t, NonBlank), LastIndexOf(t, NonBlank))

\* thought_pattern.search(ln): the marker as a whole word, \b on both sides
thought_pattern(ln) ==
    \E n \in 1..Len(ln) :
        /\ ln[n] = "thinking"
        /\ n = 1 \/ ln[n - 1] \notin WordChars
        /\ n = Len(ln) \/ ln[n + 1] \notin WordChars

\* ln.strip().lower() in ("thinking...", ..., "thinking")
Boilerplate(ln) == strip(ln) \in {<<"thinking", "dots">>, <<"thinking">>}

\* re.findall of Arabic+(non-Arabic+ Arabic+)*: every maximal stretch that
\* begins and ends with an Arabic character, and between two Arabic
\* characters everything is Arabic or non-Arabic, so there is at most one
arabic_runs(cleaned) ==
    IF IndexOf(cleaned, {"ar"}) = 0 THEN <<>>
    ELSE <<SubSeq(cleaned, IndexOf(cleaned, {"ar"}), LastIndexOf(cleaned, {"ar"}))>>

\* the sanitizer with the pattern test left out of the line filter
SanitizeBoilerplateOnly(text) ==
    IF text = <<>> THEN text
    ELSE LET filtered == SelectSeq(splitlines(text),
                                   LAMBDA ln : ~Boilerplate(ln))
             cleaned == strip(JoinLines(filtered))
             runs == arabic_runs(cleaned)
         IN  IF runs # <<>>
             THEN strip(JoinLines([n \in 1..Len(runs) |-> strip(runs[n])]))
             ELSE cleaned

\* an empty text is returned as it is; the line filter, the strip and the
\* Arabic-run extraction follow (none of them raises on a string, so the
\* "except: return text" of the source is not taken)
sanitize_output(text) ==
    IF text = <<>> THEN text
    ELSE LET filtered == SelectSeq(splitlines(text),
                            LAMBDA ln : ~thought_pattern(ln) /\ ~Boilerplate(ln))
             cleaned == strip(JoinLines(filtered))
             runs == arabic_runs(cleaned)
         IN  IF runs # <<>>
             THEN strip(JoinLines([n \in 1..Len(runs) |-> strip(runs[n])]))
             ELSE cleaned

SanitizerInit ==
    /\ JobInit
    /\ call \in {[fn |-> "sanitize_output", arg |-> t, pc |-> "call",
                   ret |-> <<>>] : t \in Texts}

SanitizerCall ==
    /\ call.fn = "sanitize_output"
    /\ call.pc = "call"
    /\ call' = [call EXCEPT !.pc = "return", !.ret = sanitize_output(call.arg)]
    /\ UNCHANGED <<variant, lock, shared, njobs, nerrors, worker, client>>

SanitizerSpec == SanitizerInit /\ [][SanitizerCall]_vars

\* ------------------------------------------------------------------ backend call
\* what subprocess.run does: it returns with exit code 0 and an output, returns
\* with another exit code, runs into the timeout, or raises something else
RunOutcomes == {"ok", "nonzero", "timeout", "exception"}
RawTexts == UNION {[1..k -> Tokens] : k \in 0..MaxRaw}
Runs ==
    {[outcome |-> "ok", stdout |-> t] : t \in RawTexts}
        \cup {[outcome |-> o, stdout |-> <<>>] : o \in RunOutcomes \ {"ok"}}

TextResult(t) == [kind |-> "text", text |-> t]
Notice(k) == [kind |-> k, text |-> <<>>]

\* translate_with_ollama: the value the worker appends for the chunk. Flask
\* reads no option and always sanitizes; Gradio sanitizes when the job's
\* filter_thoughts is set and the trimmed output is not empty, and puts a
\* warning in the place of an empty result
translate_with_ollama(run, filter_thoughts) ==
    IF variant = "flask"
    THEN IF run.outcome # "ok" THEN Notice("error")
         ELSE TextResult(sanitize_output(strip(run.stdout)))
    ELSE IF run.outcome = "timeout" THEN Notice("timeout")
         ELSE IF run.outcome = "exception" THEN Notice("exception")
         ELSE IF run.outcome = "nonzero" THEN Notice("error")
         ELSE LET raw == strip(run.stdout)
                  out == IF filter_thoughts /\ raw # <<>>
                         THEN sanitize_output(raw) ELSE raw
              IN  IF out # <<>> THEN TextResult(out) ELSE Notice("no_output")

\* one backend call for each outcome of the process and each setting of the
\* job's filter option
TranslateInit ==
    /\ JobInit
    /\ call \in {[fn |-> "translate_with_ollama",
                   arg |-> [run |-> r, filter_thoughts |-> f],
                   pc |-> "call", ret |-> Notice("none")] :
                        r \in Runs, f \in BOOLEAN}

TranslateCall ==
    /\ call.fn = "translate_with_ollama"
    /\ call.pc = "call"
    /\ call' = [call EXCEPT !.pc = "return",
                            !.ret = translate_with_ollama(call.arg.run,
                                        call.arg.filter_thoughts)]
    /\ UNCHANGED <<variant, lock, shared, njobs, nerrors, worker, client>>

TranslateSpec == TranslateInit /\ [][TranslateCall]_vars

\* ------------------------------------------------------------------ pure helpers
\* calculate_optimal_batch_size called on a document of each length
SizerInit ==
    /\ JobInit
    /\ call \in {[fn |-> "calculate_optimal_batch_size", arg |-> d,
                   pc |-> "call", ret |-> 0] : d \in SizerLens \cup {Unreadable}}

SizerCall ==
    /\ call.fn = "calculate_optimal_batch_size"
    /\ call.pc = "call"
    /\ call' = [call EXCEPT !.pc = "return",
                            !.ret = calculate_optimal_batch_size(call.arg)]
    /\ UNCHANGED <<variant, lock, shared, njobs, nerrors, worker, client>>

SizerSpec == SizerInit /\ [][SizerCall]_vars

\* two calls of the pause handler in immediate succession, at any point of a
\* run: the run so far, the first call, the steps of the threads (the worker,
\* the rest of the first call) but no other command, the second call
TwoPausesInit ==
    /\ JobInit
    /\ call = [fn |-> "pause_toggle", arg |-> 0, pc |-> "before", ret |-> FALSE]

RunBefore ==
    /\ call.pc = "before"
    /\ \/ \E w \in Workers : WorkerStep(w)
       \/ ClientCall
       \/ ClientRun

FirstPause ==
    /\ call.pc = "before"
    /\ pause_toggle
    /\ call' = [call EXCEPT !.pc = "once", !.ret = paused]

RunBetween ==
    /\ call.pc = "once"
    /\ \/ \E w \in Workers : WorkerStep(w)
       \/ ClientRun

SecondPause ==
    /\ call.pc = "once"
    /\ pause_toggle
    /\ call' = [call EXCEPT !.pc = "twice"]

TwoPausesNext ==
    \/ RunBefore
    \/ FirstPause
    \/ RunBetween
    \/ SecondPause

TwoPausesSpec == TwoPausesInit /\ [][TwoPausesNext]_vars

\* a Stop issued on a job at any point of a run, and what follows it up to
\* the next Start: the steps of the threads and every command but Start.  The
\* call keeps the results and the artifact as they were when Stop was served.
AfterStopInit ==
    /\ JobInit
    /\ call = [fn |-> "stop_translation", arg |-> FALSE, pc |-> "before",
               ret |-> <<>>]

StopIssued ==
    /\ call.pc = "before"
    /\ StartReturned
    /\ stop_translation
    /\ call' = [call EXCEPT !.pc = "stopped", !.arg = ArtifactRecorded,
                            !.ret = translated_chunks]

RunAfterStop ==
    /\ call.pc = "stopped"
    /\ \/ \E w \in Workers : WorkerStep(w)
       \/ ClientRun
       \/ DoPause
       \/ DoStop
       \/ DoStatus
       \/ PollProgress
       \/ DoExport

AfterStopNext ==
    \/ RunBefore
    \/ StopIssued
    \/ RunAfterStop

AfterStopSpec == AfterStopInit /\ [][AfterStopNext]_vars

\* a Stop served after Start has returned and before the thread of the job
\* just started has run its initialisation block, and everything the program
\* can do after it.  The call keeps the number of the job.
EarlyStopInit ==
    /\ JobInit
    /\ call = [fn |-> "stop_translation", arg |-> 0, pc |-> "before",
               ret |-> <<>>]

NotInitialised(j) == \E w \in Workers : worker[w].job = j /\ worker[w].pc = "start"

EarlyStop ==
    /\ call.pc = "before"
    /\ StartReturned
    /\ NotInitialised(njobs)
    /\ stop_translation
    /\ call' = [call EXCEPT !.pc = "early", !.arg = njobs]

RunAfterEarlyStop ==
    /\ call.pc = "early"
    /\ \/ \E w \in Workers : WorkerStep(w)
       \/ ClientCall
       \/ ClientRun

EarlyStopNext ==
    \/ RunBefore
    \/ EarlyStop
    \/ RunAfterEarlyStop

EarlyStopSpec == EarlyStopInit /\ [][EarlyStopNext]_vars

\* ------------------------------------------------------------------ claims
\* positions inside the chunk loop
LoopPcs == {"check", "pausewait", "pausesleep", "status", "dispatch", "incall"}
PauseWaiting(w) == worker[w].pc \in {"pausewait", "pausesleep"}
InLoop(w) == worker[w].pc \in LoopPcs
Active(w) == ~Gone(w)

\* C1: while the worker waits in its pause loop it does not hold the
\* job-state lock, so that a command handler can take it.
C1_PauseWaitWithoutLock ==
    \A w \in Workers : PauseWaiting(w) => lock # W(w)

\* C2: pause then resume works: a worker that has entered the pause wait
\* leaves it again once the operator toggles the pause a second time.
C2_ResumeLeavesPauseWait ==
    \A w \in Workers :
        PauseWaiting(w) ~> ~PauseWaiting(w)

\* C3: Stop always halts the job: with a Stop issued for it, an active job
\* (paused or not) reaches a terminal state with running = FALSE.
C3_StopHaltsJob ==
    \A w \in Workers : Active(w) ~> (Gone(w) /\ ~running)

\* C4: at most one worker executes the chunk loop against the shared job
\* state at any time.
C4_SingleWorkerInLoop ==
    Cardinality({w \in Workers : InLoop(w)}) <= 1

\* the job of the latest Start, and how its worker has ended
SlotOf(j) == CHOOSE w \in Workers : worker[w].job = j
CurrentJobAt(pcs) ==
    /\ njobs > 0
    /\ client.pc # "start_config"
    /\ worker[SlotOf(njobs)].pc \in pcs
JobCompleted == CurrentJobAt({"done_completed"})


\* a state in which a command handler can take the lock
HandlerCanRun == client.pc = "idle" /\ lock = Free

\* C5: with the lock released, translated_chunks has exactly current_chunk
\* entries.
C5_ResultsMatchCounter ==
    lock = Free => Len(translated_chunks) = current_chunk

\* C6: current_chunk stays between 0 and total_chunks.
C6_CounterWithinTotal ==
    0 <= current_chunk /\ current_chunk <= total_chunks

\* C7: an output artifact is recorded if and only if the job is Completed
\* (its worker finished without a stop and without an error).
C7_ArtifactIffCompleted ==
    ArtifactRecorded <=> JobCompleted

\* C8: an Export, in any phase, produces a document exactly when
\* translated_chunks is non-empty and reports nothing to export exactly when
\* it is empty.
C8_ExportIffResults ==
    HandlerCanRun => (ExportHasDocument <=> translated_chunks # <<>>)

\* C9: after a job has run to completion, the text an Export returns is the
\* text of the completion document of that job.
C9_ExportEqualsCompletion ==
    (HandlerCanRun /\ JobCompleted /\ ExportHasDocument)
        => ExportText = worker[SlotOf(njobs)].text

\* C10: a worker that ended on a Stop seen before it had processed any chunk
\* leaves total_chunks at the chunk count computed for its document,
\* translated_chunks empty, no output artifact and nothing to export.
StoppedBeforeFirstChunk ==
    /\ CurrentJobAt({"done_stopped"})
    /\ worker[SlotOf(njobs)].i = 0
NothingTranslated ==
    /\ total_chunks = TotalChunksOf(worker[SlotOf(njobs)].doc,
                                    worker[SlotOf(njobs)].B)
    /\ translated_chunks = <<>>
    /\ ~ArtifactRecorded
    /\ ~ExportHasDocument
C10_StopBeforeFirstChunk ==
    StoppedBeforeFirstChunk => NothingTranslated

\* C11: a backend call that fails does not end the worker and does not fail
\* the job: the error text becomes that chunk's result, current_chunk advances
\* by one and the worker goes on with the following chunk (or, after the last
\* chunk, with the end of the loop).
BackendFailed(w) ==
    /\ worker[w].pc = "incall"
    /\ worker'[w].pc # "incall"
    /\ nerrors' = nerrors + 1
ErrorStoredAsResult(w) ==
    /\ translated_chunks' =
            Append(translated_chunks, Result(worker[w].job, ChunkNum(w), "err"))
    /\ current_chunk' = current_chunk + 1
    /\ worker'[w].pc = (IF worker[w].i + worker[w].B < worker[w].doc
                        THEN "check" ELSE "finalize")
    /\ worker'[w].i = worker[w].i + worker[w].B
    /\ running' = running /\ error' = error /\ status_message' = status_message
C11_BackendErrorIsChunkLocal ==
    [][\A w \in Workers : BackendFailed(w) => ErrorStoredAsResult(w)]_vars

\* C12: a job whose worker raised (reading, processing or writing) is Failed:
\* running is false, the error text is recorded, no output artifact is
\* recorded and the lock is not held by the ended worker, for as long as no
\* further Start is issued.
JobFailed == CurrentJobAt({"done_failed"})
FailedState ==
    /\ ~running
    /\ status_message = MsgError
    /\ variant = "flask" => error
    /\ ~ArtifactRecorded
    /\ lock # W(SlotOf(njobs))
C12_RaiseEndsFailed ==
    JobFailed => FailedState

\* C13: for a document of length L >= 0 the batch sizer returns 1000 below
\* 5000 characters, 2000 below 50000, 3000 below 200000 and 4000 from 200000
\* on; a document of 100000 characters gets 3000 and 34 chunks.
SizerReturned ==
    /\ call.fn = "calculate_optimal_batch_size"
    /\ call.pc = "return"
    /\ call.arg >= 0
C13_BatchSizeTable ==
    SizerReturned =>
        /\ call.arg < 5000 => call.ret = 1000
        /\ (5000 <= call.arg /\ call.arg < 50000) => call.ret = 2000
        /\ (50000 <= call.arg /\ call.arg < 200000) => call.ret = 3000
        /\ 200000 <= call.arg => call.ret = 4000
        /\ call.arg = 100000 =>
                call.ret = 3000 /\ TotalChunksOf(call.arg, call.ret) = 34
C13_Witness ==
    SizerReturned /\ call.arg = 100000 /\ call.ret = 3000

\* C14: at the end of a job on a document of length L with batch size B,
\* total_chunks is ceil(L/B); a job that ran to completion has made exactly
\* ceil(L/B) backend calls and leaves current_chunk = total_chunks.
CeilDiv(n, d) == CHOOSE q \in 0..n : q * d >= n /\ (q = 0 \/ (q - 1) * d < n)
JobEndedOnText ==
    /\ CurrentJobAt(EndedPcs)
    /\ worker[SlotOf(njobs)].doc >= 0
BackendCalls(w) == worker[w].i \div worker[w].B
C14_TotalChunksIsCeiling ==
    JobEndedOnText =>
        LET w == SlotOf(njobs)
            N == CeilDiv(worker[w].doc, worker[w].B)
        IN  /\ total_chunks = N
            /\ worker[w].pc = "done_completed" =>
                    (BackendCalls(w) = N /\ current_chunk = total_chunks)

\* C15: a status read is a point-in-time snapshot: the progress and the live
\* text it reports come from one job state, the live text holding exactly the
\* results of the chunks the reported progress counts, in order.  (The Flask
\* get_status reads all it reports in one locked block; the Gradio handlers
\* read the progress, the status and the live text one after the other.)
FeedResults(feed) == SelectSeq(feed, LAMBDA e : e # NL)
InSourceOrder(out) == \A n \in 1..Len(out) : out[n].idx = n
ProgressOf(k, n) == IF n = 0 THEN 0 ELSE (100 * k) \div n
\* the read of the live text that follows the read of the progress
LiveFeedRead ==
    /\ client.pc = "get_live_feed"
    /\ client'.pc # "get_live_feed"
PollConsistent ==
    /\ client.progress = ProgressOf(Len(FeedResults(live_feed)), total_chunks)
    /\ InSourceOrder(FeedResults(live_feed))
C15_StatusReadIsSnapshot ==
    [][LiveFeedRead => PollConsistent]_vars

\* C16: after the Start of a job, translated_chunks and live_feed hold only
\* results produced by that job's worker, none of an earlier job's.
OnlyOwnResults(seq) == \A n \in 1..Len(seq) : seq[n].job = njobs
C16_NoResultOfEarlierJob ==
    StartReturned =>
        /\ OnlyOwnResults(translated_chunks)
        /\ OnlyOwnResults(FeedResults(live_feed))

\* C17: two TogglePause calls in immediate succession, no other command in
\* between, leave paused as it was before the first.
C17_TwoPausesRestore ==
    call.pc = "twice" => paused = call.ret
C17_Witness ==
    /\ call.pc = "twice"
    /\ \E w \in Workers : InLoop(w)

\* C18: with no job active (before any Start, or after the job ended),
\* TogglePause leaves the job state as it is: the paused flag does not become
\* set.
NoJobActive ==
    /\ client.pc = "idle"
    /\ \A w \in Workers : Gone(w)
C18_PauseWithoutJobNoEffect ==
    [][(NoJobActive /\ ~paused) => ~paused']_vars

\* C19: once the worker has ended, the status output tells how: the stopped
\* message for a job ended by Stop, the completion message for a completed
\* job, the error text for a failed one.
StatusOutput == IF variant = "flask" THEN StatusReport.status ELSE get_status
C19_StatusTellsOutcome ==
    /\ CurrentJobAt({"done_stopped"}) => StatusOutput = MsgStopped
    /\ CurrentJobAt({"done_completed"}) => StatusOutput = MsgComplete
    /\ CurrentJobAt({"done_failed"}) => StatusOutput = MsgError

\* C20: no line of the sanitizer's output matches a meta-commentary marker as
\* a whole word or is a boilerplate line; a first line "thinking..." followed
\* by a line of target-script text gives exactly that line.
SanitizerReturned ==
    /\ call.fn = "sanitize_output"
    /\ call.pc = "return"
TargetScriptLine(ln) ==
    /\ ln # <<>>
    /\ \A n \in 1..Len(ln) : ln[n] \in {"ar", "sp"}
    /\ ln[1] = "ar" /\ ln[Len(ln)] = "ar"
ThinkingThenTarget(text) ==
    /\ Len(text) > 3
    /\ SubSeq(text, 1, 3) = <<"thinking", "dots", "nl">>
    /\ TargetScriptLine(SubSeq(text, 4, Len(text)))
C20_NoMarkerLineInOutput ==
    SanitizerReturned =>
        /\ \A n \in 1..Len(splitlines(call.ret)) :
                LET ln == splitlines(call.ret)[n]
                IN  ~thought_pattern(ln) /\ ~Boilerplate(ln)
        /\ ThinkingThenTarget(call.arg) =>
                call.ret = SubSeq(call.arg, 4, Len(call.arg))
C20_Witness ==
    /\ SanitizerReturned
    /\ call.arg = <<"thinking", "dots", "nl", "ar", "sp", "ar">>
    /\ call.ret = <<"ar", "sp", "ar">>

\* C21: a worker whose loop ran through all chunks of its document (it did
\* not break on the stop flag) writes the output document and ends Completed
\* (Failed if the writer raises), also when Stop arrives after the last chunk
\* and before the final block.
LoopExhausted(w) ==
    /\ worker[w].doc >= 0
    /\ worker[w].i >= worker[w].doc
C21_ExhaustedLoopCompletes ==
    \A w \in Workers :
        (worker[w].pc \in EndedPcs /\ LoopExhausted(w))
            => worker[w].pc \in {"done_completed", "done_failed"}

\* C22: Stop is a one-way latch seen at iteration boundaries: from the Stop
\* to the next Start at most one further chunk result is appended, the
\* results accumulated so far stay, no output artifact is written and
\* stopped stays set.
StopServed ==
    /\ call.fn = "stop_translation"
    /\ call.pc = "stopped"
C22_StopIsLatch ==
    StopServed =>
        /\ stopped
        /\ Len(translated_chunks) <= Len(call.ret) + 1
        /\ Len(translated_chunks) >= Len(call.ret)
        /\ SubSeq(translated_chunks, 1, Len(call.ret)) = call.ret
        /\ ArtifactRecorded => call.arg

\* C23: no backend call is started while the job is paused: whenever a worker
\* begins the backend call for a chunk, paused is false.
CallBegins(w) ==
    /\ worker[w].pc # "incall"
    /\ worker'[w].pc = "incall"
C23_NoCallWhilePaused ==
    [][\A w \in Workers : CallBegins(w) => ~paused]_vars

\* C24: the lock is not held across a backend call, a sleep or document file
\* I/O: a thread inside the backend call, the pause sleep or the document
\* writer (completion or export) does not own the lock.
C24_LockNotHeldAcrossIO ==
    /\ \A w \in Workers :
            worker[w].pc \in {"incall", "pausesleep", "writing"} => lock # W(w)
    /\ client.pc = "export_write" => lock # Handler

\* C25: the sanitizer is applied to a chunk's backend output only when the
\* job's filter-thoughts option is enabled: with the option disabled or absent,
\* the result of a backend call that gave an output is that output, trimmed and
\* otherwise unmodified.
TranslateReturned ==
    /\ call.fn = "translate_with_ollama"
    /\ call.pc = "return"
GaveOutput(run) ==
    /\ run.outcome = "ok"
    /\ strip(run.stdout) # <<>>
C25_SanitizerOnlyWhenEnabled ==
    (/\ TranslateReturned
     /\ GaveOutput(call.arg.run)
     /\ ~call.arg.filter_thoughts)
        => call.ret = TextResult(strip(call.arg.run.stdout))

\* C26: in every state with the lock released, live_feed is the concatenation,
\* in order, of the entries of translated_chunks, each followed by the
\* separator (overlapping jobs included).
RECURSIVE FeedOf(_)
FeedOf(chunks) ==
    IF chunks = <<>> THEN <<>>
    ELSE <<Head(chunks)>> \o FeedSep \o FeedOf(Tail(chunks))
C26_LiveFeedIsConcatenation ==
    lock = Free => live_feed = FeedOf(translated_chunks)
C26_Witness ==
    /\ lock = Free
    /\ Len(translated_chunks) = 2
    /\ translated_chunks[1].job # translated_chunks[2].job
    /\ live_feed = FeedOf(translated_chunks)

\* C27: within one job the chunks are processed one after the other and each
\* once: a job has at most one backend call in flight, the call in flight is
\* for the chunk that follows the results stored so far (no chunk is sent
\* twice), and the k-th entry of translated_chunks is the result of the k-th
\* source chunk.
InFlight(w) == worker[w].pc = "incall"
C27_SequentialExactlyOnce ==
    /\ \A v, w \in Workers :
            (InFlight(v) /\ InFlight(w) /\ worker[v].job = worker[w].job)
                => v = w
    /\ \A w \in Workers :
            InFlight(w) => ChunkNum(w) = Len(translated_chunks) + 1
    /\ \A k \in 1..Len(translated_chunks) : translated_chunks[k].idx = k

\* C28: terminal phases are absorbing: once the job has ended (completed,
\* stopped or failed), no TogglePause, Stop, Status or Export command changes
\* its control flags, its results, its status or its recorded artifact; only
\* the next Start does.
JobTerminal ==
    /\ njobs > 0
    /\ client.pc # "start_config"
    /\ \A w \in Workers : Gone(w)
CommandStep ==
    \/ DoPause
    \/ DoStop
    \/ DoStatus
    \/ PollProgress
    \/ DoExport
    \/ ClientRun
C28_TerminalIsAbsorbing ==
    [][(JobTerminal /\ CommandStep) =>
            UNCHANGED <<paused, stopped, running, current_chunk, total_chunks,
                        translated_chunks, live_feed, status_message, error,
                        output_file>>]_vars

\* C29: a status poll made after Start has returned never sees running false
\* while the job has not ended: running is true from the return of Start
\* until the worker finishes.
CurrentJobLive == \E w \in Workers : worker[w].job = njobs /\ ~Gone(w)
C29_RunningUntilJobEnds ==
    (StartReturned /\ lock = Free /\ CurrentJobLive) => running

\* C30: once running is false for a started job, its translated_chunks,
\* live_feed, current_chunk and status message do not change any more until
\* the next Start.
StartStep == njobs' # njobs \/ client'.pc = "start_config"
C30_NotRunningIsFinal ==
    [][(StartReturned /\ lock = Free /\ ~running /\ ~StartStep) =>
            UNCHANGED <<translated_chunks, live_feed, current_chunk,
                        status_message>>]_vars

\* C31: a Stop issued after Start has returned and before the worker has
\* initialised the job state is not lost: the worker of that job processes no
\* chunk, makes no backend call and writes no output artifact.
EarlyStopServed ==
    /\ call.fn = "stop_translation"
    /\ call.pc = "early"
PastStopTest == {"status", "dispatch", "incall", "writing", "done_completed"}
C31_EarlyStopNotLost ==
    EarlyStopServed =>
        /\ \A w \in Workers :
                worker[w].job = call.arg =>
                    /\ worker[w].i = 0
                    /\ worker[w].pc \notin PastStopTest
        /\ \A k \in 1..Len(translated_chunks) :
                translated_chunks[k].job # call.arg
        /\ variant = "flask" => output_file # call.arg

\* C32: every started job terminates: under fair scheduling, with backend
\* calls that return and an operator who does not leave the job paused for
\* ever, the worker reaches a terminal state with running false and the lock
\* released, whatever the length of the document.
Terminated(w) ==
    /\ Gone(w)
    /\ ~running
    /\ lock = Free
C32_StartedJobTerminates ==
    \A w \in Workers : Active(w) ~> Terminated(w)

====
